---- MODULE Spec2Model ----
(***************************************************************************)
(* Production line simulation (src/simulation.py, run_simulation_monitor). *)
(*                                                                         *)
(* The program is a discrete-event simulation on the simpy kernel: the     *)
(* environment keeps a heap of events ordered by (time, priority, event    *)
(* id); env.run pops one event at a time, runs its callbacks, and a        *)
(* callback that resumes a process runs that generator up to its next      *)
(* yield.  One action of this model is one such pop: the callbacks of the  *)
(* event and the whole process step they resume.                           *)
(*                                                                         *)
(* Virtual time is counted in ticks, TicksPerMinute ticks to the minute;   *)
(* processing rates are the divisors of TicksPerMinute so that 1.0 / k is  *)
(* a whole number of ticks.  The module-level parameters of the program    *)
(* (C1, C2, n_machines, the setup times) and the arguments of              *)
(* run_simulation_monitor are chosen in Init from bounded sets.            *)
(***************************************************************************)
EXTENDS Integers, Sequences, FiniteSets, TLC

\* ------------------------------------------------------------------ bounds
TicksPerMinute == 2
MaxRate        == 2
MaxCap         == 2
MaxWorkers     == 2
MaxRetry       == 2
MaxHorizon     == 4
MaxGap         == 2

\* --------------------------------------------------- program constants
RandomSeed       == 42
ResourceCapacity == 1

VARIABLES
    cfg,        \* the parameters of the run
    status,     \* "start", "running", "done", "rejected", "failed"
    now,        \* env.now, in ticks
    queue,      \* the environment's event heap, as a set of events
    eid,        \* the environment's event id counter
    pc,         \* where each process generator is suspended
    users,      \* Resource.users of mach1, mach2
    reqQueue,   \* Resource.put_queue of mach1, mach2 (waiting requests)
    items,      \* len(Store.items) of wip1, wip2
    putQ,       \* Store.put_queue of wip1, wip2
    getQ,       \* Store.get_queue of wip1, wip2
    counter,    \* completed_units[0]
    records,    \* the monitor's list of snapshot records
    rng,        \* state of the seeded random generator
    arrivals,   \* history: inter-arrival gaps that have elapsed
    intake,     \* history: units machine1 has started to process
    pushed,     \* history: units appended to each store
    pulled,     \* history: units removed from each store
    chk,        \* history: each station's last downstream check
    stepped     \* history: process steps executed by env.run

vars == << cfg, status, now, queue, eid, pc, users, reqQueue, items, putQ,
           getQ, counter, records, rng, arrivals, intake, pushed, pulled,
           chk, stepped >>

Resources   == {"mach1", "mach2"}
Stores      == {"wip1", "wip2"}
Stations    == {"m1", "m2"}
WorkerNames == << "w1", "w2", "w3", "w4" >>
Workers     == {WorkerNames[i] : i \in 1..(MaxWorkers + 1)}
Procs       == {"arr", "m1", "m2", "fleet", "mon"} \cup Workers

\* ------------------------------------------------------------ parameters
\* The parameters of a run: k1, k2, k3 and sim_time are the arguments of
\* run_simulation_monitor, the others are the module-level parameters.
\* Rates are in units per minute, setup times and sim_time in minutes.
ValidRates == {k \in 1..MaxRate : TicksPerMinute % k = 0}
BadValues  == {0 - 1, 0}
RateSet    == BadValues \cup ValidRates
CapSet     == 1..MaxCap
WorkerSet  == 0..MaxWorkers
RetrySet   == 1..MaxRetry
HorizonSet == 1..MaxHorizon

\* runs that start: the program has setup_time_machine2 <= setup_time_machine1
ValidConfigs ==
    {c \in [ k1 : ValidRates, k2 : ValidRates, k3 : ValidRates,
             C1 : CapSet, C2 : CapSet, n_machines : WorkerSet,
             setup_time_machine1 : RetrySet, setup_time_machine2 : RetrySet,
             sim_time : HorizonSet ] :
        c.setup_time_machine2 <= c.setup_time_machine1}

\* runs with one parameter that is zero or negative
BadConfigs ==
    LET Small == {c \in ValidConfigs :
                    /\ c.C1 = 1 /\ c.C2 = 1
                    /\ c.setup_time_machine1 = 1 /\ c.setup_time_machine2 = 1
                    /\ c.sim_time = MaxHorizon}
    IN  UNION {{[c EXCEPT !.k1 = b], [c EXCEPT !.k2 = b], [c EXCEPT !.k3 = b],
                [c EXCEPT !.C1 = b], [c EXCEPT !.C2 = b],
                [c EXCEPT !.sim_time = b]} : c \in Small, b \in BadValues}

ConfigSet == ValidConfigs \cup BadConfigs

Cap(s) == IF s = "wip1" THEN cfg.C1 ELSE cfg.C2

Minutes(m) == m * TicksPerMinute

\* proc_time = 1.0 / k, in ticks (k # 0)
ProcTime(k) == TicksPerMinute \div k

\* math.floor(env.now): ticks to whole minutes
Floor(t) == t \div TicksPerMinute

\* random.seed / random.expovariate: the generator is a function of its
\* state, which the seed fixes; a draw is a positive gap in ticks.
Seed(s)       == s % 8
RandomNext(r) == (5 * r + 3) % 8
Expovariate(r) == 1 + (r % MaxGap)

\* ------------------------------------------------------- the event heap
Ev(t, u, id, k, p, r) ==
    [time |-> t, urgent |-> u, eid |-> id, kind |-> k, proc |-> p, res |-> r]

\* a heap order that compares time and priority only
BeforeNoTieBreak(a, b) ==
    \/ a.time < b.time
    \/ a.time = b.time /\ a.urgent /\ ~b.urgent

\* heap order of simpy: (time, priority, event id)
Before(a, b) ==
    \/ a.time < b.time
    \/ /\ a.time = b.time
       /\ \/ a.urgent /\ ~b.urgent
          \/ a.urgent = b.urgent /\ a.eid < b.eid

\* The part of the state the kernel operations work on.
Cur ==
    [queue |-> queue, eid |-> eid, users |-> users, reqQueue |-> reqQueue,
     items |-> items, putQ |-> putQ, getQ |-> getQ,
     pushed |-> pushed, pulled |-> pulled]

Commit(S) ==
    /\ queue' = S.queue
    /\ eid' = S.eid
    /\ users' = S.users
    /\ reqQueue' = S.reqQueue
    /\ items' = S.items
    /\ putQ' = S.putQ
    /\ getQ' = S.getQ
    /\ pushed' = S.pushed
    /\ pulled' = S.pulled

\* env.schedule(event, priority, delay)
Schedule(S, t, u, k, p, r) ==
    [S EXCEPT !.queue = @ \cup {Ev(t, u, S.eid, k, p, r)}, !.eid = @ + 1]

\* env.timeout(delay) for process p at time t
Timeout(S, t, d, p) == Schedule(S, t + d, FALSE, "timeout", p, "none")

\* env.process(generator): an Initialize event, urgent, at the current time
Process(S, t, p) == Schedule(S, t, TRUE, "init", p, "none")

\* a process that raised: its (failed) process event is scheduled
Fail(S, t, p) == Schedule(S, t, FALSE, "fail", p, "none")

\* Store._do_put: there is a free slot
HasRoom(S, s) == S.items[s] < Cap(s)

\* a get condition that also serves an empty store
CanGetWhenEmpty(S, s) == S.items[s] >= 0

\* Store._do_get: there is an item
CanGet(S, s) == S.items[s] > 0

\* BaseResource._trigger_put of a store: the head of the put queue only
TriggerPut(S, s, t) ==
    IF S.putQ[s] # << >> /\ HasRoom(S, s)
    THEN Schedule([S EXCEPT !.items[s] = @ + 1, !.putQ[s] = Tail(@),
                            !.pushed[s] = @ + 1],
                  t, FALSE, "put", Head(S.putQ[s]), s)
    ELSE S

\* a get that removes two items for one request
TriggerGetTakesTwo(S, s, t) ==
    IF S.getQ[s] # << >> /\ CanGet(S, s)
    THEN Schedule([S EXCEPT !.items[s] = @ - 2, !.getQ[s] = Tail(@),
                            !.pulled[s] = @ + 1],
                  t, FALSE, "get", Head(S.getQ[s]), s)
    ELSE S

\* BaseResource._trigger_get of a store: the head of the get queue only
TriggerGet(S, s, t) ==
    IF S.getQ[s] # << >> /\ CanGet(S, s)
    THEN Schedule([S EXCEPT !.items[s] = @ - 1, !.getQ[s] = Tail(@),
                            !.pulled[s] = @ + 1],
                  t, FALSE, "get", Head(S.getQ[s]), s)
    ELSE S

\* store.put(1) and store.get() called by process p
StorePut(S, s, p, t) == TriggerPut([S EXCEPT !.putQ[s] = Append(@, p)], s, t)
StoreGet(S, s, p, t) == TriggerGet([S EXCEPT !.getQ[s] = Append(@, p)], s, t)

\* Resource._trigger_put: grant the head of the waiting requests
Grant(S, r, t) ==
    IF S.reqQueue[r] # << >> /\ Len(S.users[r]) < ResourceCapacity
    THEN Schedule([S EXCEPT !.users[r] = Append(@, Head(S.reqQueue[r])),
                            !.reqQueue[r] = Tail(@)],
                  t, FALSE, "request", Head(S.reqQueue[r]), r)
    ELSE S

\* machine.request() and machine.release(req) called by process p
Request(S, r, p, t) == Grant([S EXCEPT !.reqQueue[r] = Append(@, p)], r, t)

\* a release that leaves the holder in the users of the resource
ReleaseKeepsUser(S, r, p, t) ==
    Schedule(S, t, FALSE, "release", p, r)

Release(S, r, p, t) ==
    Schedule([S EXCEPT !.users[r] = SelectSeq(@, LAMBDA x : x # p)],
             t, FALSE, "release", p, r)

\* a test that lets the station proceed when the buffer is exactly full
IsFullOffByOne(S, s) == S.items[s] > Cap(s)

\* the station's own test of its downstream buffer
IsFull(S, s) == S.items[s] >= Cap(s)


\* --------------------------------------------------------------- Init
Init ==
    /\ cfg \in ConfigSet
    /\ status = "start"
    /\ now = 0
    /\ queue = {}
    /\ eid = 0
    /\ pc = [p \in Procs |-> "none"]
    /\ users = [r \in Resources |-> << >>]
    /\ reqQueue = [r \in Resources |-> << >>]
    /\ items = [s \in Stores |-> 0]
    /\ putQ = [s \in Stores |-> << >>]
    /\ getQ = [s \in Stores |-> << >>]
    /\ counter = 0
    /\ records = << >>
    /\ rng = 0
    /\ arrivals = 0
    /\ intake = 0
    /\ pushed = [s \in Stores |-> 0]
    /\ pulled = [s \in Stores |-> 0]
    /\ chk = [m \in Stations |-> [n |-> 0, t |-> 0, full |-> FALSE]]
    /\ stepped = 0

\* a constructor that accepts a capacity of 0
StoreCapacityNonNegative(c) == c >= 0

\* simpy.Store(env, capacity): a capacity <= 0 raises ValueError
StoreCapacityOk(c) == c > 0

\* env.run(until): until <= env.now raises ValueError
UntilOk(at) == at > 0

\* a run whose stop event is scheduled one tick after the horizon
SpawnedStopsAfterHorizon ==
    LET S1 == Process([Cur EXCEPT !.queue = {}, !.eid = 0], 0, "arr")
        S2 == Process(S1, 0, "m1")
        S3 == Process(S2, 0, "m2")
        S4 == Process(S3, 0, "fleet")
        S5 == Process(S4, 0, "mon")
    IN  Schedule(S5, Minutes(cfg.sim_time) + 1, TRUE, "until", "env", "none")

\* the five env.process calls of run_simulation_monitor, in program order,
\* then the urgent stop event that env.run(until=sim_time) schedules
Spawned ==
    LET S1 == Process([Cur EXCEPT !.queue = {}, !.eid = 0], 0, "arr")
        S2 == Process(S1, 0, "m1")
        S3 == Process(S2, 0, "m2")
        S4 == Process(S3, 0, "fleet")
        S5 == Process(S4, 0, "mon")
    IN  Schedule(S5, Minutes(cfg.sim_time), TRUE, "until", "env", "none")

\* run_simulation_monitor up to the first event popped by env.run
Setup ==
    /\ status = "start"
    /\ rng' = Seed(RandomSeed)
    /\ IF StoreCapacityOk(cfg.C1) /\ StoreCapacityOk(cfg.C2)
          /\ UntilOk(Minutes(cfg.sim_time))
       THEN /\ status' = "running"
            /\ Commit(Spawned)
            /\ pc' = [p \in Procs |->
                        IF p \in {"arr", "m1", "m2", "fleet", "mon"}
                        THEN "init" ELSE "none"]
       ELSE /\ status' = "rejected"
            /\ Commit(Cur)
            /\ pc' = pc
    /\ UNCHANGED << cfg, now, counter, records, arrivals, intake, chk,
                    stepped >>

\* a kernel that pops any pending event
IsAnyEvent(e) == e \in queue

\* env.step: pop the least event e of the heap and set the clock
IsMin(e) == \A f \in queue : ~Before(f, e)

Pop(e) ==
    /\ status = "running"
    /\ IsMin(e)
    /\ now' = e.time

Popped(e) == [Cur EXCEPT !.queue = queue \ {e}]

Step == stepped' = stepped + 1

\* ------------------------------------------------------ order_arrivals
OrderArrivals ==
    \E e \in queue :
        /\ e.proc = "arr" /\ e.kind \in {"init", "timeout"}
        /\ Pop(e)
        /\ arrivals' = IF e.kind = "timeout" THEN arrivals + 1 ELSE arrivals
        /\ rng' = RandomNext(rng)
        /\ Commit(Timeout(Popped(e), e.time, Expovariate(rng), "arr"))
        /\ pc' = [pc EXCEPT !["arr"] = "gap"]
        /\ Step
        /\ UNCHANGED << cfg, status, counter, records, intake, chk >>

\* ------------------------------------------------------------ machine1
\* lines 63-67: first step, or the step after the retry delay
Machine1Request ==
    \E e \in queue :
        /\ e.proc = "m1" /\ e.kind \in {"init", "timeout"}
        /\ pc["m1"] \in {"init", "retry"}
        /\ Pop(e)
        /\ IF e.kind = "init" /\ cfg.k1 = 0
           THEN /\ Commit(Fail(Popped(e), e.time, "m1"))
                /\ pc' = [pc EXCEPT !["m1"] = "dead"]
           ELSE /\ Commit(Request(Popped(e), "mach1", "m1", e.time))
                /\ pc' = [pc EXCEPT !["m1"] = "req"]
        /\ Step
        /\ UNCHANGED << cfg, status, counter, records, rng, arrivals,
                        intake, chk >>

\* a station that gives up its resource before its processing delay
Machine1CheckReleasesEarly ==
    \E e \in queue :
        /\ e.proc = "m1" /\ e.kind = "request"
        /\ Pop(e)
        /\ LET S0 == Popped(e)
               full == IsFull(S0, "wip1")
               S1 == Release(S0, "mach1", "m1", e.time)
           IN  /\ chk' = [chk EXCEPT !["m1"] =
                            [n |-> @.n + 1, t |-> e.time, full |-> full]]
               /\ IF full
                  THEN /\ Commit(Timeout(S1, e.time,
                                   Minutes(cfg.setup_time_machine1), "m1"))
                       /\ pc' = [pc EXCEPT !["m1"] = "retry"]
                       /\ intake' = intake
                  ELSE IF ProcTime(cfg.k1) < 0
                  THEN /\ Commit(Fail(S0, e.time, "m1"))
                       /\ pc' = [pc EXCEPT !["m1"] = "dead"]
                       /\ intake' = intake
                  ELSE /\ Commit(Timeout(S1, e.time, ProcTime(cfg.k1), "m1"))
                       /\ pc' = [pc EXCEPT !["m1"] = "proc"]
                       /\ intake' = intake + 1
        /\ Step
        /\ UNCHANGED << cfg, status, counter, records, rng, arrivals >>

\* lines 69-74: the request is granted, test the downstream buffer
Machine1Check ==
    \E e \in queue :
        /\ e.proc = "m1" /\ e.kind = "request"
        /\ Pop(e)
        /\ LET S0 == Popped(e)
               full == IsFull(S0, "wip1")
           IN  /\ chk' = [chk EXCEPT !["m1"] =
                            [n |-> @.n + 1, t |-> e.time, full |-> full]]
               /\ IF full
                  THEN /\ Commit(Timeout(Release(S0, "mach1", "m1", e.time),
                                   e.time,
                                   Minutes(cfg.setup_time_machine1), "m1"))
                       /\ pc' = [pc EXCEPT !["m1"] = "retry"]
                       /\ intake' = intake
                  ELSE IF ProcTime(cfg.k1) < 0
                  THEN /\ Commit(Fail(S0, e.time, "m1"))
                       /\ pc' = [pc EXCEPT !["m1"] = "dead"]
                       /\ intake' = intake
                  ELSE /\ Commit(Timeout(S0, e.time, ProcTime(cfg.k1), "m1"))
                       /\ pc' = [pc EXCEPT !["m1"] = "proc"]
                       /\ intake' = intake + 1
        /\ Step
        /\ UNCHANGED << cfg, status, counter, records, rng, arrivals >>

\* line 75: the processing delay is over, wip1.put(1)
Machine1Put ==
    \E e \in queue :
        /\ e.proc = "m1" /\ e.kind = "timeout" /\ pc["m1"] = "proc"
        /\ Pop(e)
        /\ Commit(StorePut(Popped(e), "wip1", "m1", e.time))
        /\ pc' = [pc EXCEPT !["m1"] = "put"]
        /\ Step
        /\ UNCHANGED << cfg, status, counter, records, rng, arrivals,
                        intake, chk >>

\* the put event of wip1 (its callback serves a waiting get), then
\* line 76 and lines 66-67 of the next cycle
Machine1Release ==
    \E e \in queue :
        /\ e.proc = "m1" /\ e.kind = "put"
        /\ Pop(e)
        /\ LET S1 == TriggerGet(Popped(e), "wip1", e.time)
               S2 == Release(S1, "mach1", "m1", e.time)
           IN  Commit(Request(S2, "mach1", "m1", e.time))
        /\ pc' = [pc EXCEPT !["m1"] = "req"]
        /\ Step
        /\ UNCHANGED << cfg, status, counter, records, rng, arrivals,
                        intake, chk >>

\* ------------------------------------------------------------ machine2
\* lines 83-86: first step, or the step after the retry delay
Machine2Get ==
    \E e \in queue :
        /\ e.proc = "m2" /\ e.kind \in {"init", "timeout"}
        /\ pc["m2"] \in {"init", "retry"}
        /\ Pop(e)
        /\ IF e.kind = "init" /\ cfg.k2 = 0
           THEN /\ Commit(Fail(Popped(e), e.time, "m2"))
                /\ pc' = [pc EXCEPT !["m2"] = "dead"]
           ELSE /\ Commit(StoreGet(Popped(e), "wip1", "m2", e.time))
                /\ pc' = [pc EXCEPT !["m2"] = "get"]
        /\ Step
        /\ UNCHANGED << cfg, status, counter, records, rng, arrivals,
                        intake, chk >>

\* the get event of wip1 (its callback serves a waiting put), then
\* lines 87-88
Machine2Request ==
    \E e \in queue :
        /\ e.proc = "m2" /\ e.kind = "get"
        /\ Pop(e)
        /\ LET S1 == TriggerPut(Popped(e), "wip1", e.time)
           IN  Commit(Request(S1, "mach2", "m2", e.time))
        /\ pc' = [pc EXCEPT !["m2"] = "req"]
        /\ Step
        /\ UNCHANGED << cfg, status, counter, records, rng, arrivals,
                        intake, chk >>

\* lines 90-95: the request is granted, test the downstream buffer
Machine2Check ==
    \E e \in queue :
        /\ e.proc = "m2" /\ e.kind = "request"
        /\ Pop(e)
        /\ LET S0 == Popped(e)
               full == IsFull(S0, "wip2")
           IN  /\ chk' = [chk EXCEPT !["m2"] =
                            [n |-> @.n + 1, t |-> e.time, full |-> full]]
               /\ IF full
                  THEN /\ Commit(Timeout(Release(S0, "mach2", "m2", e.time),
                                   e.time,
                                   Minutes(cfg.setup_time_machine2), "m2"))
                       /\ pc' = [pc EXCEPT !["m2"] = "retry"]
                  ELSE IF ProcTime(cfg.k2) < 0
                  THEN /\ Commit(Fail(S0, e.time, "m2"))
                       /\ pc' = [pc EXCEPT !["m2"] = "dead"]
                  ELSE /\ Commit(Timeout(S0, e.time, ProcTime(cfg.k2), "m2"))
                       /\ pc' = [pc EXCEPT !["m2"] = "proc"]
        /\ Step
        /\ UNCHANGED << cfg, status, counter, records, rng, arrivals,
                        intake >>

\* line 96: the processing delay is over, wip2.put(1)
Machine2Put ==
    \E e \in queue :
        /\ e.proc = "m2" /\ e.kind = "timeout" /\ pc["m2"] = "proc"
        /\ Pop(e)
        /\ Commit(StorePut(Popped(e), "wip2", "m2", e.time))
        /\ pc' = [pc EXCEPT !["m2"] = "put"]
        /\ Step
        /\ UNCHANGED << cfg, status, counter, records, rng, arrivals,
                        intake, chk >>

\* the put event of wip2 (its callback serves a waiting get), then
\* line 97 and line 86 of the next cycle
Machine2Release ==
    \E e \in queue :
        /\ e.proc = "m2" /\ e.kind = "put"
        /\ Pop(e)
        /\ LET S1 == TriggerGet(Popped(e), "wip2", e.time)
               S2 == Release(S1, "mach2", "m2", e.time)
           IN  Commit(StoreGet(S2, "wip1", "m2", e.time))
        /\ pc' = [pc EXCEPT !["m2"] = "get"]
        /\ Step
        /\ UNCHANGED << cfg, status, counter, records, rng, arrivals,
                        intake, chk >>

\* the Release event of a resource: its callback grants a waiting request
ReleaseEvent ==
    \E e \in queue :
        /\ e.kind = "release"
        /\ Pop(e)
        /\ Commit(Grant(Popped(e), e.res, e.time))
        /\ UNCHANGED << cfg, status, pc, counter, records, rng, arrivals,
                        intake, chk, stepped >>

\* ------------------------------------------------------- machine3_unit
\* lines 104-106: first step of a terminal worker
WorkerStart ==
    \E e \in queue :
        /\ e.proc \in Workers /\ e.kind = "init"
        /\ Pop(e)
        /\ IF cfg.k3 = 0
           THEN /\ Commit(Fail(Popped(e), e.time, e.proc))
                /\ pc' = [pc EXCEPT ![e.proc] = "dead"]
           ELSE /\ Commit(StoreGet(Popped(e), "wip2", e.proc, e.time))
                /\ pc' = [pc EXCEPT ![e.proc] = "get"]
        /\ Step
        /\ UNCHANGED << cfg, status, counter, records, rng, arrivals,
                        intake, chk >>

\* the get event of wip2 (its callback serves a waiting put), then line 107
WorkerProcess ==
    \E e \in queue :
        /\ e.proc \in Workers /\ e.kind = "get"
        /\ Pop(e)
        /\ LET S1 == TriggerPut(Popped(e), "wip2", e.time)
           IN  IF ProcTime(cfg.k3) < 0
               THEN /\ Commit(Fail(S1, e.time, e.proc))
                    /\ pc' = [pc EXCEPT ![e.proc] = "dead"]
               ELSE /\ Commit(Timeout(S1, e.time, ProcTime(cfg.k3), e.proc))
                    /\ pc' = [pc EXCEPT ![e.proc] = "proc"]
        /\ Step
        /\ UNCHANGED << cfg, status, counter, records, rng, arrivals,
                        intake, chk >>

\* a counter that counts down
Decrement(c) == c - 1

\* line 108: counter[0] += 1
Increment(c) == c + 1

\* line 108 and line 106 of the next cycle
WorkerComplete ==
    \E e \in queue :
        /\ e.proc \in Workers /\ e.kind = "timeout"
        /\ Pop(e)
        /\ counter' = Increment(counter)
        /\ Commit(StoreGet(Popped(e), "wip2", e.proc, e.time))
        /\ pc' = [pc EXCEPT ![e.proc] = "get"]
        /\ Step
        /\ UNCHANGED << cfg, status, records, rng, arrivals, intake, chk >>

\* ------------------------------------------------------ machine3_fleet
RECURSIVE SpawnWorkers(_, _, _, _)
SpawnWorkers(S, t, i, n) ==
    IF i > n THEN S
    ELSE SpawnWorkers(Process(S, t, WorkerNames[i]), t, i + 1, n)

\* lines 114-117: launch the workers, then the first keep-alive timeout
FleetStart ==
    \E e \in queue :
        /\ e.proc = "fleet" /\ e.kind = "init"
        /\ Pop(e)
        /\ Commit(Timeout(SpawnWorkers(Popped(e), e.time, 1, cfg.n_machines),
                          e.time, Minutes(1), "fleet"))
        /\ pc' = [p \in Procs |->
                    IF p = "fleet" THEN "sleep"
                    ELSE IF \E i \in 1..cfg.n_machines : p = WorkerNames[i]
                    THEN "init" ELSE pc[p]]
        /\ Step
        /\ UNCHANGED << cfg, status, counter, records, rng, arrivals,
                        intake, chk >>

\* lines 116-117: the keep-alive loop
FleetKeepAlive ==
    \E e \in queue :
        /\ e.proc = "fleet" /\ e.kind = "timeout"
        /\ Pop(e)
        /\ Commit(Timeout(Popped(e), e.time, Minutes(1), "fleet"))
        /\ Step
        /\ UNCHANGED << cfg, status, pc, counter, records, rng, arrivals,
                        intake, chk >>

\* ------------------------------------------------------------- monitor
Snapshot(t) ==
    [minute |-> Floor(t), buffer1_len |-> items["wip1"],
     buffer2_len |-> items["wip2"], completed |-> counter]

\* a monitor that sleeps two minutes
MonitorPeriodTwoMinutes == Minutes(2)

\* line 126: env.timeout(1.0)
MonitorPeriod == Minutes(1)

\* lines 123-126
Monitor ==
    \E e \in queue :
        /\ e.proc = "mon" /\ e.kind \in {"init", "timeout"}
        /\ Pop(e)
        /\ records' = Append(records, Snapshot(e.time))
        /\ Commit(Timeout(Popped(e), e.time, MonitorPeriod, "mon"))
        /\ pc' = [pc EXCEPT !["mon"] = "sleep"]
        /\ Step
        /\ UNCHANGED << cfg, status, counter, rng, arrivals, intake, chk >>

\* ------------------------------------------------------------- env.run
\* the stop event of env.run(until=sim_time): the run returns records
Stop ==
    \E e \in queue :
        /\ e.kind = "until"
        /\ Pop(e)
        /\ status' = "done"
        /\ Commit(Popped(e))
        /\ UNCHANGED << cfg, pc, counter, records, rng, arrivals, intake,
                        chk, stepped >>

\* the event of a process that raised: env.step re-raises, the run aborts
Crash ==
    \E e \in queue :
        /\ e.kind = "fail"
        /\ Pop(e)
        /\ status' = "failed"
        /\ Commit(Popped(e))
        /\ UNCHANGED << cfg, pc, counter, records, rng, arrivals, intake,
                        chk, stepped >>

Next ==
    \/ Setup
    \/ OrderArrivals
    \/ Machine1Request
    \/ Machine1Check
    \/ Machine1Put
    \/ Machine1Release
    \/ Machine2Get
    \/ Machine2Request
    \/ Machine2Check
    \/ Machine2Put
    \/ Machine2Release
    \/ ReleaseEvent
    \/ WorkerStart
    \/ WorkerProcess
    \/ WorkerComplete
    \/ FleetStart
    \/ FleetKeepAlive
    \/ Monitor
    \/ Stop
    \/ Crash

Spec == Init /\ [][Next]_vars

\* the runs of the shortest and of the longest horizon: the stop event is
\* one more event of the heap, so the run of a horizon in between is the
\* run of the longest horizon cut at an earlier time
FairInit == Init /\ (cfg.sim_time <= 1 \/ cfg.sim_time = MaxHorizon)

\* env.run keeps calling env.step while the heap holds an event
FairSpec == FairInit /\ [][Next]_vars /\ WF_vars(Next)

\* ------------------------------------------------------------ properties
InRun == status \in {"running", "done", "failed"}

RetryDelay(m) ==
    IF m = "m1" THEN Minutes(cfg.setup_time_machine1)
    ELSE Minutes(cfg.setup_time_machine2)

\* the events env.step may pop next
MinEvents == {e \in queue : IsMin(e)}

\* C1: no unit is destroyed at Station B: the units machine2 has pulled
\* from Buffer-1 and not pushed into Buffer-2 are at most the one it holds.
C1_NoUnitDestroyedAtB ==
    pulled["wip1"] - pushed["wip2"] \in {0, 1}

\* C2: Station A's intake is gated by the Arrival Generator: the units
\* machine1 has taken in are at most the arrivals produced so far.
C2_IntakeGatedByArrivals ==
    intake <= arrivals

\* C3: buffer bounds: in every state of a run and in every snapshot record
\* 0 <= len(Buffer-1) <= C1 and 0 <= len(Buffer-2) <= C2.
C3_BufferBounds ==
    InRun =>
        /\ \A s \in Stores : 0 <= items[s] /\ items[s] <= Cap(s)
        /\ \A i \in 1..Len(records) :
              /\ 0 <= records[i].buffer1_len
              /\ records[i].buffer1_len <= cfg.C1
              /\ 0 <= records[i].buffer2_len
              /\ records[i].buffer2_len <= cfg.C2

C3_Witness ==
    /\ status = "done"
    /\ items["wip1"] = cfg.C1 /\ items["wip2"] = cfg.C2
    /\ \E i \in 1..Len(records) :
          /\ records[i].buffer1_len = cfg.C1
          /\ records[i].buffer2_len = cfg.C2
    /\ \E i \in 1..Len(records) :
          records[i].buffer1_len = 0 /\ records[i].buffer2_len = 0


Feeds(m)    == IF m = "m1" THEN "wip1" ELSE "wip2"
Resource(m) == IF m = "m1" THEN "mach1" ELSE "mach2"

\* a step in which station m tests its downstream buffer
Checks(m) == chk'[m].n # chk[m].n

\* C4 (as claimed): a station that finds its downstream buffer full at
\* time t releases its resource at t without processing or pushing, and
\* its next test of the downstream buffer happens at exactly t + its
\* retry delay.
C4_FixedDelayRetry ==
    [][\A m \in Stations :
          Checks(m) =>
            /\ chk'[m].full =>
                  /\ users'[Resource(m)] = << >>
                  /\ pushed' = pushed
                  /\ pc'[m] = "retry"
            /\ (chk[m].n > 0 /\ chk[m].full) =>
                  chk'[m].t = chk[m].t + RetryDelay(m)]_vars


InvalidConfig ==
    \/ cfg.k1 <= 0 \/ cfg.k2 <= 0 \/ cfg.k3 <= 0
    \/ cfg.C1 < 0 \/ cfg.C2 < 0
    \/ cfg.n_machines = 0
    \/ cfg.sim_time <= 0

\* C5: an invalid configuration (non-positive rate, negative capacity,
\* zero workers, non-positive horizon) is rejected before any process step
\* or clock advance, and no snapshot record is produced.
C5_InvalidConfigRejected ==
    InvalidConfig =>
        /\ stepped = 0
        /\ now = 0
        /\ records = << >>

\* C6: the minute values of the records are 0, 1, 2, ... with no gap and
\* no duplicate.
C6_MinuteTagging ==
    \A i \in 1..Len(records) : records[i].minute = i - 1

C6_Witness ==
    /\ status = "done"
    /\ Len(records) >= 3
    /\ records[Len(records)].minute = Len(records) - 1

\* one terminal worker whose rate is below Station B's rate
SlowTerminal ==
    /\ cfg.n_machines = 1
    /\ cfg.k1 > 0 /\ cfg.k2 > 0 /\ cfg.k3 > 0
    /\ cfg.k3 < cfg.k2

\* C7 (as claimed): with one slow terminal worker, once len(Buffer-2)
\* reaches C2 it stays equal to C2 in every later state of the run, hence
\* in every later snapshot record.
C7_SaturationStable ==
    SlowTerminal =>
        \A i \in 1..Len(records) : \A j \in i..Len(records) :
            records[i].buffer2_len = cfg.C2 => records[j].buffer2_len = cfg.C2

\* C7 (amended): with one slow terminal worker, len(Buffer-2) never exceeds
\* C2, and a step that takes it away from C2 is the terminal worker's get,
\* which lowers it by exactly one; Station B does not push while it is in
\* its retry delay.
C7_SaturationLeftByWorkerGet ==
    [][(SlowTerminal /\ status = "running") =>
          /\ items'["wip2"] <= cfg.C2
          /\ (items["wip2"] = cfg.C2 /\ items'["wip2"] # cfg.C2) =>
                /\ items'["wip2"] = cfg.C2 - 1
                /\ pulled'["wip2"] = pulled["wip2"] + 1
                /\ \E e \in queue' : e.kind = "get" /\ e.proc = "w1"
          /\ pc["m2"] = "retry" => pushed'["wip2"] = pushed["wip2"]]_vars

C7_Witness ==
    /\ SlowTerminal /\ status = "running"
    /\ cfg.C2 >= 2
    /\ chk["m2"].full /\ pc["m2"] = "retry"
    /\ items["wip2"] = cfg.C2 - 1
    /\ pulled["wip2"] >= 2

ZeroCapacity ==
    /\ cfg.C1 = 0 \/ cfg.C2 = 0
    /\ cfg.C1 >= 0 /\ cfg.C2 >= 0
    /\ cfg.k1 > 0 /\ cfg.k2 > 0 /\ cfg.k3 > 0
    /\ cfg.n_machines >= 1 /\ cfg.sim_time > 0

C9_Determinism ==
    [][\A v \in {vars'} : ~ ENABLED (Next /\ vars' # v)]_vars

\* a tie in time and priority between the event popped next and another
C9_Witness ==
    /\ status = "running"
    /\ Len(records) >= 2
    /\ \E e \in MinEvents : \E f \in queue \ {e} :
          /\ f.time = e.time /\ f.urgent = e.urgent
          /\ e.proc = "mon" /\ f.proc \in {"m1", "m2", "w1"}

\* C10: completed is non-decreasing across the snapshot records.
C10_CompletedNonDecreasing ==
    \A i \in 1..(Len(records) - 1) :
        records[i + 1].completed >= records[i].completed

C10_Witness ==
    /\ status = "done"
    /\ \E i \in 1..(Len(records) - 1) :
          records[i + 1].completed > records[i].completed

Horizon == Minutes(cfg.sim_time)

\* a configuration the specification calls valid
ValidConfig ==
    /\ cfg.k1 > 0 /\ cfg.k2 > 0 /\ cfg.k3 > 0
    /\ cfg.C1 >= 0 /\ cfg.C2 >= 0
    /\ cfg.n_machines >= 1 /\ cfg.sim_time > 0

\* a valid configuration whose buffers have room for at least one unit
RunnableConfig == ValidConfig /\ cfg.C1 > 0 /\ cfg.C2 > 0

\* process p waits for an item of store s
BlockedOnGet(p, s) == \E i \in 1..Len(getQ[s]) : getQ[s][i] = p

C12_ResourceDiscipline ==
    /\ [](\A m \in Stations :
            /\ Len(users[Resource(m)]) <= 1
            /\ pc[m] \in {"proc", "put"} => users[Resource(m)] = << m >>
            /\ pc[m] = "retry" => users[Resource(m)] = << >>)
    /\ [][\A m \in Stations :
            (users[Resource(m)] = << m >> /\ pc[m] # pc'[m]) =>
                \/ users'[Resource(m)] = << m >> /\ pc[m] # "put"
                \/ /\ pc[m] = "put"
                   /\ putQ[Feeds(m)] = << >>
                   /\ pushed'[Feeds(m)] = pushed[Feeds(m)]
                \/ Checks(m) /\ chk'[m].full]_vars

\* Station A in its retry delay without its resource while Station B,
\* holding its own, is in its processing delay
C12_Witness ==
    /\ status = "running"
    /\ pc["m1"] = "retry" /\ users["mach1"] = << >>
    /\ pc["m2"] = "proc" /\ users["mach2"] = << "m2" >>
    /\ pushed["wip1"] >= 2 /\ pushed["wip2"] >= 1

\* a step in which terminal worker w ends its processing delay
Completes(w) == pc[w] = "proc" /\ pc'[w] = "get"

\* C13: the completed-units counter changes only in the completion step of
\* a terminal worker, by exactly +1, for a unit taken from Buffer-2 before
\* that step; every other step leaves it unchanged.
C13_CounterFrame ==
    [][ /\ counter' # counter =>
              \E w \in Workers :
                  /\ Completes(w)
                  /\ \E e \in queue \ queue' :
                        e.proc = w /\ e.kind = "timeout" /\ e.time = now'
        /\ (\E w \in Workers : Completes(w)) =>
              /\ counter' = counter + 1
              /\ counter' <= pulled["wip2"]
        /\ (\A w \in Workers : pc'[w] = pc[w]) => counter' = counter ]_vars

\* two terminal workers have completed units
C13_Witness ==
    /\ status = "running"
    /\ cfg.n_machines = 2
    /\ counter >= 2
    /\ pc["w1"] = "proc" /\ pc["w2"] = "get"

\* the events a step takes off the heap and the events it schedules
PoppedEvents == queue \ queue'
Scheduled    == queue' \ queue

\* C14 (as claimed): events of the same virtual time run in the order in
\* which they were scheduled: the event a step pops was scheduled before
\* every other pending event of its time.
C14_FifoAmongSameTime ==
    [][status = "running" =>
          \A e \in PoppedEvents : \A f \in queue \ {e} :
              f.time = e.time => e.eid < f.eid]_vars

\* C14 (amended): events of the same virtual time and the same priority
\* run in the order in which they were scheduled; the start of a process
\* and the stop event of the horizon are urgent and run before the other
\* events of their time. The wake-up of the Monitor after its one-minute
\* delay and the wake-ups of stations and workers after their delays have
\* the same priority, so the one scheduled first runs first.
C14_FifoWithinPriority ==
    [][status = "running" =>
          /\ \A g \in Scheduled : \A f \in queue : f.eid < g.eid
          /\ \A e \in PoppedEvents : \A f \in queue \ {e} :
                /\ e.time = now' /\ e.time <= f.time
                /\ f.time = e.time =>
                      \/ e.urgent /\ ~f.urgent
                      \/ e.urgent = f.urgent /\ e.eid < f.eid
                /\ (f.time = e.time /\ e.kind = "timeout"
                      /\ f.kind = "timeout") => e.eid < f.eid]_vars

\* the Monitor's wake-up is the next event; at this instant Station A has
\* already woken from its retry delay (its wake-up was scheduled before
\* the Monitor's) and the wake-up of another station or of a worker,
\* scheduled after the Monitor's, is pending
C14_Witness ==
    /\ status = "running"
    /\ Len(records) >= 1
    /\ pc["m1"] = "req"
    /\ \E e \in MinEvents :
          /\ e.proc = "mon" /\ e.kind = "timeout" /\ e.time = now
          /\ \E f \in queue :
                /\ f.proc = "m1" /\ f.kind = "request" /\ f.time = now
          /\ \E f \in queue :
                /\ f.kind = "timeout" /\ f.time = now /\ f.eid > e.eid
                /\ f.proc \in {"m2"} \cup Workers

\* C15: the clock never goes backward, it changes only in a step that pops
\* a scheduled event (to the time of that event), and no process step is
\* executed at a time greater than the horizon.
C15_ClockMonotone ==
    [][ /\ now' >= now
        /\ now' # now => \E e \in PoppedEvents : e.time = now'
        /\ PoppedEvents = {} => now' = now
        /\ stepped' # stepped => now' <= Horizon ]_vars

\* the clock stands one tick before the horizon, between two minutes
C15_Witness ==
    /\ status = "running"
    /\ now = Horizon - 1 /\ now % TicksPerMinute # 0
    /\ stepped > Horizon

\* the terminal workers that have taken a unit from Buffer-2 and have not
\* completed it: the get is granted and the worker not yet resumed, the
\* worker is in its processing delay, or its processing delay raised
InService ==
    {w \in Workers :
        \/ pc[w] = "proc"
        \/ pc[w] = "get" /\ \E e \in queue : e.kind = "get" /\ e.proc = w
        \/ pc[w] = "dead" /\ cfg.k3 # 0}

\* C16: the units pushed into Buffer-2 are those in Buffer-2, those in
\* service at the terminal workers and those completed; the units in
\* service are at most the worker count; completed never exceeds pushed.
C16_Buffer2Accounting ==
    /\ pushed["wip2"] = items["wip2"] + Cardinality(InService) + counter
    /\ Cardinality(InService) <= cfg.n_machines
    /\ \A w \in InService : \E i \in 1..cfg.n_machines : w = WorkerNames[i]
    /\ counter <= pushed["wip2"]

\* every worker busy, a unit waiting in Buffer-2 and units completed
C16_Witness ==
    /\ status = "running"
    /\ cfg.n_machines >= 1
    /\ Cardinality(InService) = cfg.n_machines
    /\ items["wip2"] >= 1
    /\ counter >= 1

\* C17: a station's put never blocks: while a station is in its processing
\* delay, about to put, its downstream buffer holds fewer items than its
\* capacity; no process waits on a put; a station that has put is resumed
\* at the time of the put, so it never holds its resource waiting for
\* downstream space.
C17_PutNeverBlocks ==
    /\ \A s \in Stores : putQ[s] = << >>
    /\ \A m \in Stations :
          /\ pc[m] = "proc" => items[Feeds(m)] < Cap(Feeds(m))
          /\ (pc[m] = "put" /\ status = "running") =>
                \E e \in queue :
                    e.kind = "put" /\ e.proc = m /\ e.time = now

\* Station B's put has filled Buffer-2 exactly to its capacity
C17_Witness ==
    /\ status = "running"
    /\ cfg.C2 >= 2
    /\ pc["m2"] = "put" /\ items["wip2"] = cfg.C2
    /\ users["mach2"] = << "m2" >>
    /\ pushed["wip1"] > cfg.C1

\* a step in which station m asks for its resource
Requests(m) == pc[m] # "req" /\ pc'[m] = "req"

\* C18 (as claimed): a station's request does not suspend the station:
\* after its request the next process step is the station's own test of
\* its downstream buffer.
C18_RequesterNotSuspended ==
    [][\A m \in Stations :
          (pc[m] = "req" /\ stepped' # stepped) => Checks(m)]_vars

\* C18 (amended): mach1 is requested and held by machine1 only, mach2 by
\* machine2 only; the waiting list of either resource is empty in every
\* state; a request is granted in the step that makes it, and the station
\* is resumed by the grant event at the virtual time of the request.
C18_NoContention ==
    /\ [](/\ \A r \in Resources : reqQueue[r] = << >>
          /\ \A m \in Stations : users[Resource(m)] \in {<< >>, << m >>}
          /\ \A e \in queue :
                e.kind = "request" =>
                    /\ e.proc \in Stations /\ e.res = Resource(e.proc)
                    /\ pc[e.proc] = "req"
                    /\ status = "running" => e.time = now)
    /\ [][\A m \in Stations :
            /\ Requests(m) =>
                  /\ users'[Resource(m)] = << m >>
                  /\ \E e \in Scheduled :
                        /\ e.kind = "request" /\ e.proc = m
                        /\ e.res = Resource(m) /\ e.time = now'
            /\ pc[m] = "req" => now' = now]_vars

\* Station A has asked for its resource with Buffer-1 full; before it is
\* resumed Station B, whose put event is the next event, takes a unit from
\* Buffer-1
C18_Witness ==
    /\ status = "running"
    /\ pc["m1"] = "req" /\ users["mach1"] = << "m1" >>
    /\ reqQueue["mach1"] = << >>
    /\ items["wip1"] = cfg.C1
    /\ \E e \in MinEvents : e.proc = "m2" /\ e.kind = "put"

\* C19: the horizon is exclusive for snapshots: a run of horizon H returns
\* exactly H records, of minutes 0..H-1, the first being (0, 0, 0, 0); the
\* run stops at H before any wake-up scheduled for H is executed, the
\* Monitor's among them, so there is no record of minute H.
C19_HorizonExclusive ==
    /\ \A i \in 1..Len(records) :
          /\ records[i].minute < cfg.sim_time
          /\ i = 1 => records[i] = [minute |-> 0, buffer1_len |-> 0,
                                    buffer2_len |-> 0, completed |-> 0]
    /\ status = "done" =>
          /\ now = Horizon
          /\ Len(records) = cfg.sim_time
          /\ \A i \in 1..cfg.sim_time : records[i].minute = i - 1
          /\ \A e \in queue : e.time >= Horizon
          /\ \E e \in queue :
                e.proc = "mon" /\ e.kind = "timeout" /\ e.time = Horizon

\* the run has stopped with the wake-ups of the Monitor, of a station and
\* of a worker pending for exactly the horizon
C19_Witness ==
    /\ status = "done"
    /\ Len(records) = MaxHorizon
    /\ counter >= 1
    /\ \E e \in queue :
          e.proc \in Stations /\ e.kind = "timeout" /\ e.time = Horizon
    /\ \E e \in queue :
          e.proc \in Workers /\ e.kind = "timeout" /\ e.time = Horizon

====
